---- MODULE Spec2Model ----
(***************************************************************************)
(* A model of StudentAPI (src/app.py): the Flask request handlers, the     *)
(* connection kept in the attribute self.connection that every request of  *)
(* the process shares, the students and results tables the handlers read   *)
(* and write through that connection, and the two helper computations      *)
(* (_validate_required_fields, _generate_response_id).                     *)
(*                                                                         *)
(* Spec          the server with overlapping requests (app.run serves each *)
(*               request on its own thread; all share one StudentAPI).     *)
(* SpecSeq       the same server taking one request at a time.             *)
(* SpecValidate  _validate_required_fields applied to every bounded input. *)
(* SpecRid       _generate_response_id applied to every bounded input.     *)
(***************************************************************************)
EXTENDS Integers, Sequences, FiniteSets, TLC

VARIABLES
    students,    \* committed rows of table students, in insertion order
    results,     \* committed rows of table results, in insertion order
    conns,       \* every connection get_db_connection() has returned
    connection,  \* self.connection: 0 is None, else an index of conns
    req,         \* per thread: the request it serves and where it stands
    served,      \* number of requests accepted so far
    call         \* the helper call of SpecValidate / SpecRid

vars == <<students, results, conns, connection, req, served, call>>

(***************************************************************************)
(* Bounds.                                                                 *)
(***************************************************************************)
MaxRequests == 2      \* requests accepted in one run
MaxRequired == 2      \* length of a required-field list (SpecValidate)
MaxIdLen == 2         \* characters of a string test id (SpecRid)
MaxSmallId == 30      \* the integer test ids 0..MaxSmallId (SpecRid)

\* Worker threads of the server, interchangeable.
Threads == {1, 2}

(***************************************************************************)
(* JSON values as the handlers receive them from request.get_json(). A     *)
(* string is the sequence of its characters.                               *)
(***************************************************************************)
JNull == [t |-> "null"]
JStr(s) == [t |-> "str", s |-> s]
JInt(n) == [t |-> "int", n |-> n]
JBool(b) == [t |-> "bool", b |-> b]
JList(l) == [t |-> "list", l |-> l]
JDict(d) == [t |-> "dict", d |-> d]

\* Python truth value of a JSON value: `not data[field]`.
Truthy(v) ==
    CASE v.t = "null" -> FALSE
      [] v.t = "str" -> Len(v.s) > 0
      [] v.t = "int" -> v.n # 0
      [] v.t = "bool" -> v.b
      [] v.t = "list" -> Len(v.l) > 0
      [] v.t = "dict" -> DOMAIN v.d # {}

None == [none |-> TRUE]

\* A mutation of _validate_required_fields: stops at the first omission.
ValidateFirstOnly(data, required_fields) ==
    LET missing_fields ==
            SelectSeq(required_fields,
                      LAMBDA field : field \notin DOMAIN data \/ ~Truthy(data[field]))
    IN  IF missing_fields # <<>>
        THEN [success |-> FALSE, missing_fields |-> <<Head(missing_fields)>>]
        ELSE None

\* _validate_required_fields: the failure carries the names joined into its
\* message ("Missing required fields: a, b"), kept here as the list.
ValidateRequiredFields(data, required_fields) ==
    LET missing_fields ==
            SelectSeq(required_fields,
                      LAMBDA field : field \notin DOMAIN data \/ ~Truthy(data[field]))
    IN  IF missing_fields # <<>>
        THEN [success |-> FALSE, missing_fields |-> missing_fields]
        ELSE None

(***************************************************************************)
(* _generate_response_id.                                                  *)
(***************************************************************************)
prime == 1000000007

Digits == {"0", "1", "2", "3", "4", "5", "6", "7", "8", "9"}

DigitVal(c) ==
    CASE c = "0" -> 0 [] c = "1" -> 1 [] c = "2" -> 2 [] c = "3" -> 3
      [] c = "4" -> 4 [] c = "5" -> 5 [] c = "6" -> 6 [] c = "7" -> 7
      [] c = "8" -> 8 [] c = "9" -> 9

RECURSIVE DigitsValue(_)
DigitsValue(s) ==
    IF s = <<>> THEN 0
    ELSE 10 * DigitsValue(SubSeq(s, 1, Len(s) - 1)) + DigitVal(s[Len(s)])

Ok(v) == [ok |-> TRUE, v |-> v]
Raise(type, msg) == [ok |-> FALSE, type |-> type, msg |-> msg]

\* int(test_id): an int is itself; a string parses as an optional sign and
\* decimal digits, else ValueError; None is a TypeError.
PyInt(x) ==
    CASE x.t = "int" -> Ok(x.n)
      [] x.t = "str" ->
            LET signed == Len(x.s) > 0 /\ x.s[1] \in {"-", "+"}
                body == IF signed THEN Tail(x.s) ELSE x.s
            IN  IF body # <<>> /\ \A i \in 1..Len(body) : body[i] \in Digits
                THEN Ok(IF signed /\ x.s[1] = "-"
                        THEN 0 - DigitsValue(body) ELSE DigitsValue(body))
                ELSE Raise("ValueError", "invalid literal for int()")
      [] OTHER -> Raise("TypeError", "int() argument must be a string or a number")

\* Extended Euclid: <<g, x, y>> with a*x + b*y = g = gcd(a, b).
RECURSIVE EGcd(_, _)
EGcd(a, b) ==
    IF b = 0 THEN <<a, 1, 0>>
    ELSE LET r == EGcd(b, a % b)
         IN  <<r[1], r[3], r[2] - (a \div b) * r[3]>>

\* pow(base, -1, mod): the inverse in 0..mod-1, or ValueError when base has none.
PowInverse(base, mod) ==
    LET e == EGcd(base % mod, mod)
    IN  IF e[1] # 1
        THEN Raise("ValueError", "base is not invertible for the given modulus")
        ELSE Ok(e[2] % mod)

\* try: return pow(int(test_id), -1, prime)
\* except ValueError: raise ValueError("test_id must be an integer")
\* except Exception as e: raise Exception("Error generating response ID: ...")
GenerateResponseId(test_id) ==
    LET n == PyInt(test_id)
        r == IF n.ok THEN PowInverse(n.v, prime) ELSE n
    IN  IF r.ok THEN r
        ELSE IF r.type = "ValueError"
             THEN Raise("ValueError", "test_id must be an integer")
             ELSE Raise("Exception", "Error generating response ID")

\* _calculate_marks
RECURSIVE CalculateMarks(_)
CalculateMarks(responses) ==
    IF responses = <<>> THEN 0
    ELSE (IF Head(responses).selected_option = Head(responses).correct_option
          THEN 1 ELSE 0) + CalculateMarks(Tail(responses))

(***************************************************************************)
(* The database: tables students and results, and the rows of department.  *)
(* src/app.py declares no schema, so a table holds exactly the rows the    *)
(* statements of the handlers write. A connection carries one transaction: *)
(* its statements are pending until commit() and are dropped by rollback() *)
(* or close(); a statement sees the committed rows and the pending         *)
(* statements of its own connection.                                       *)
(***************************************************************************)
Departments == {"CS"}

\* encrypt_data / decrypt_data: a token that only decrypt_data opens.
EncryptData(data) == [token |-> data]
DecryptData(encrypted_data) == encrypted_data.token

\* INSERT INTO students (id, email, name, dept_name, password): verified
\* takes the column default.
StudentRow(data) ==
    [id |-> data.id, email |-> data.email, name |-> data.name,
     dept_name |-> data.department, password |-> EncryptData(data.password),
     verified |-> FALSE]

\* INSERT INTO results (...) VALUES (response_id, test['name'], marks_scored, ...)
ResultRow(data) ==
    [id |-> GenerateResponseId(data.test.id).v, name |-> data.test.name,
     marks |-> CalculateMarks(data.responses), total_marks |-> data.test.marks,
     difficulty |-> data.test.difficulty, subject |-> data.test.subject,
     student_email |-> data.user.email, teacher_email |-> data.test.teacher,
     data |-> data.responses, test_id |-> data.test.id]

\* A mutation of InsertResult: REPLACE INTO, a row with the same id is overwritten.
ReplaceResult(table, row) ==
    IF \E i \in DOMAIN table : table[i].id = row.id
    THEN [i \in DOMAIN table |-> IF table[i].id = row.id THEN row ELSE table[i]]
    ELSE Append(table, row)

InsertResult(table, row) == Append(table, row)

InsertStudent(table, row) == Append(table, row)

\* UPDATE students SET verified = 1 WHERE email = %s
UpdateVerified(table, email) ==
    [i \in DOMAIN table |->
        IF table[i].email = email THEN [table[i] EXCEPT !.verified = TRUE]
        ELSE table[i]]

\* A mutation of UpdateStudent: the UPDATE also sets verified = 0.
UpdateStudentResetVerified(table, data) ==
    [i \in DOMAIN table |->
        IF table[i].id = data.id
        THEN [table[i] EXCEPT !.name = data.name, !.email = data.email,
                              !.dept_name = data.department,
                              !.password = EncryptData(data.password),
                              !.verified = FALSE]
        ELSE table[i]]

\* UPDATE students SET name, email, dept_name, password WHERE id = %s
UpdateStudent(table, data) ==
    [i \in DOMAIN table |->
        IF table[i].id = data.id
        THEN [table[i] EXCEPT !.name = data.name, !.email = data.email,
                              !.dept_name = data.department,
                              !.password = EncryptData(data.password)]
        ELSE table[i]]

ApplyOp(db, op) ==
    CASE op.op = "insert_student" ->
            [db EXCEPT !.students = InsertStudent(db.students, op.row)]
      [] op.op = "update_verified" ->
            [db EXCEPT !.students = UpdateVerified(db.students, op.email)]
      [] op.op = "update_student" ->
            [db EXCEPT !.students = UpdateStudent(db.students, op.data)]
      [] op.op = "insert_result" ->
            [db EXCEPT !.results = InsertResult(db.results, op.row)]

RECURSIVE ApplyAll(_, _)
ApplyAll(db, ops) ==
    IF ops = <<>> THEN db ELSE ApplyAll(ApplyOp(db, Head(ops)), Tail(ops))

\* What a statement on connection c reads.
View(c) == ApplyAll([students |-> students, results |-> results], conns[c].pending)

\* cursor.execute(...) of a write on connection c.
Execute(c, op) == [conns EXCEPT ![c].pending = Append(@, op)]

IsOpen(c) == c # 0 /\ conns[c].open

(***************************************************************************)
(* Requests.                                                               *)
(***************************************************************************)
Ids == {1, 2}
Emails == {"a", "b"}
Passwords == {"p"}
LoginPasswords == {"p", "q"}
Names == {"n"}
DepartmentNames == {"CS", "EE"}
TestIds == {JInt(5), JInt(0)}
Responses ==
    {<<>>,
     <<[selected_option |-> "A", correct_option |-> "A"],
       [selected_option |-> "A", correct_option |-> "B"]>>}

Kinds == {"signup", "verify", "login", "submit_test", "update_profile"}
Mutating == {"signup", "verify", "submit_test", "update_profile"}

\* request.get_json() / request.args of a request to the route.
Inputs(kind) ==
    CASE kind \in {"signup", "update_profile"} ->
            [id : Ids, name : Names, email : Emails,
             password : Passwords, department : DepartmentNames]
      [] kind = "verify" -> [email : Emails] \cup {[mail |-> "a"]}
      [] kind = "login" -> [email : Emails \cup {""}, password : LoginPasswords]
      [] kind = "submit_test" ->
            [user : [email : Emails],
             test : [id : TestIds, name : {"T"}, marks : {1}, difficulty : {"easy"},
                     subject : {"S"}, teacher : {"t"}],
             responses : Responses]

Chars(s) == IF s = "" THEN <<>> ELSE <<s>>

\* The payload as the JSON mapping _validate_required_fields is given.
ToJson(data) ==
    [k \in DOMAIN data |->
        CASE k = "id" -> JInt(data[k])
          [] k \in {"user", "test"} -> JDict(data[k])
          [] k = "responses" -> JList(data[k])
          [] OTHER -> JStr(Chars(data[k]))]

RequiredFields(kind) ==
    CASE kind = "signup" -> <<"id", "name", "email", "password", "department">>
      [] kind = "login" -> <<"email", "password">>
      [] kind = "submit_test" -> <<"user", "test", "responses">>
      [] kind = "update_profile" -> <<"id", "name", "email", "department", "password">>

Idle ==
    [pc |-> "idle", kind |-> "none", data |-> None, own |-> 0, cur |-> 0,
     student |-> None, resp |-> 0, message |-> "", raised |-> FALSE,
     escaped |-> FALSE]

\* The handler returns jsonify({"message": ...}), status, and leaves the
\* cursor's block. login answers with what it fetched (user_data); the payload
\* of the other handlers is gone with their frame.
Respond(r, status, message) ==
    [r EXCEPT !.pc = "teardown", !.resp = status, !.message = message, !.cur = 0,
              !.data = IF r.kind = "login" THEN @ ELSE None]

\* "message" of the 500 response of each handler
ErrorMessage(kind) ==
    CASE kind = "signup" -> "An error occurred during signup"
      [] kind = "verify" -> "An error occurred during verification"
      [] kind = "login" -> "An error occurred during login"
      [] kind = "submit_test" -> "An error occurred during test submission"
      [] kind = "update_profile" -> "An error occurred updating profile"

\* The handler has issued its statements and goes on to commit().
ToCommit(r) == [r EXCEPT !.pc = "commit", !.data = None]

\* A statement of the try block raises: a mutating handler goes to its except
\* block (rollback), a reading handler answers 500 at once.
Raised(r) ==
    IF r.kind \in Mutating
    THEN [r EXCEPT !.pc = "except", !.raised = TRUE, !.data = None]
    ELSE [Respond(r, 500, ErrorMessage(r.kind)) EXCEPT !.raised = TRUE]

\* The database outlives the process: the server starts on an empty students
\* table or on one that holds the row of an earlier signup (name "m",
\* password "q").
InitialStudents ==
    {<<>>,
     <<StudentRow([id |-> 1, name |-> "m", email |-> "a", password |-> "q",
                   department |-> "CS"])>>}

Init ==
    /\ students \in InitialStudents
    /\ results = <<>>
    /\ conns = <<>>
    /\ connection = 0
    /\ req = [t \in Threads |-> Idle]
    /\ served = 0
    /\ call = None

\* _before_request: self.connection = get_db_connection(). The request goes to
\* the first idle worker, which stands for any idle worker.
BeforeRequest(t) ==
    /\ req[t].pc = "idle"
    /\ \A u \in Threads : u < t => req[u].pc # "idle"
    /\ served < MaxRequests
    /\ \E kind \in Kinds :
          req' = [req EXCEPT ![t] =
                    [Idle EXCEPT !.pc = "handler", !.kind = kind,
                                 !.own = Len(conns) + 1]]
    /\ conns' = Append(conns, [open |-> TRUE, pending |-> <<>>])
    /\ connection' = Len(conns) + 1
    /\ served' = served + 1
    /\ UNCHANGED <<students, results, call>>

\* The same, taken only when no other request is in flight.
BeforeRequestSeq(t) ==
    /\ \A u \in Threads : req[u].pc = "idle"
    /\ BeforeRequest(t)

\* The head of a handler: read the payload, validate it, compute what needs no
\* database (submit_test: the response id), then `with self.connection.cursor()`.
Start(t) ==
    /\ req[t].pc = "handler"
    /\ \E data \in Inputs(req[t].kind) :
          LET r == [req[t] EXCEPT !.data = data]
              kind == r.kind
              invalid ==
                  CASE kind = "verify" -> "email" \notin DOMAIN data
                    [] OTHER ->
                        ValidateRequiredFields(ToJson(data), RequiredFields(kind)) # None
          IN  req' = [req EXCEPT ![t] =
                  IF invalid
                  THEN Respond(r, 400, IF kind = "verify" THEN "Email is required"
                                       ELSE "Missing required fields")
                  ELSE IF kind = "submit_test" /\ ~GenerateResponseId(data.test.id).ok
                       THEN Raised(r)
                       ELSE [r EXCEPT !.pc = "q1", !.cur = connection]]
    /\ UNCHANGED <<students, results, conns, connection, served, call>>

\* A mutation of Duplicate: the check looks at the email only.
DuplicateEmailOnly(rows, data) ==
    \E i \in DOMAIN rows : rows[i].email = data.email

\* WHERE email = %s OR id = %s finds a row
Duplicate(rows, data) ==
    \E i \in DOMAIN rows : rows[i].email = data.email \/ rows[i].id = data.id

\* signup: SELECT id FROM students WHERE email = %s OR id = %s
SignupCheck(t) ==
    LET r == req[t] IN
    /\ r.pc = "q1" /\ r.kind = "signup"
    /\ req' = [req EXCEPT ![t] =
            IF ~IsOpen(r.cur) THEN Raised(r)
            ELSE IF Duplicate(View(r.cur).students, r.data)
                 THEN Respond(r, 400, "Email or ID already exists")
                 ELSE [r EXCEPT !.pc = "q2"]]
    /\ UNCHANGED <<students, results, conns, connection, served, call>>

\* signup: SELECT department_name FROM department ...; INSERT INTO students
SignupInsert(t) ==
    LET r == req[t] IN
    /\ r.pc = "q2" /\ r.kind = "signup"
    /\ IF ~IsOpen(r.cur)
       THEN /\ req' = [req EXCEPT ![t] = Raised(r)]
            /\ UNCHANGED conns
       ELSE IF r.data.department \notin Departments
            THEN /\ req' = [req EXCEPT ![t] = Respond(r, 400, "Invalid department")]
                 /\ UNCHANGED conns
            ELSE /\ req' = [req EXCEPT ![t] = ToCommit(r)]
                 /\ conns' = Execute(r.cur, [op |-> "insert_student",
                                             row |-> StudentRow(r.data)])
    /\ UNCHANGED <<students, results, connection, served, call>>

\* verify: SELECT email FROM students WHERE email = %s
VerifySelect(t) ==
    LET r == req[t] IN
    /\ r.pc = "q1" /\ r.kind = "verify"
    /\ req' = [req EXCEPT ![t] =
            IF ~IsOpen(r.cur) THEN Raised(r)
            ELSE IF \E i \in DOMAIN View(r.cur).students :
                        View(r.cur).students[i].email = r.data.email
                 THEN [r EXCEPT !.pc = "q2"]
                 ELSE Respond(r, 404, "Email not found")]
    /\ UNCHANGED <<students, results, conns, connection, served, call>>

\* verify: UPDATE students SET verified = 1 WHERE email = %s
VerifyUpdate(t) ==
    LET r == req[t] IN
    /\ r.pc = "q2" /\ r.kind = "verify"
    /\ IF ~IsOpen(r.cur)
       THEN /\ req' = [req EXCEPT ![t] = Raised(r)]
            /\ UNCHANGED conns
       ELSE /\ req' = [req EXCEPT ![t] = ToCommit(r)]
            /\ conns' = Execute(r.cur, [op |-> "update_verified",
                                        email |-> r.data.email])
    /\ UNCHANGED <<students, results, connection, served, call>>

\* A mutation of LoginChecks: the verified flag is looked at first.
LoginChecksVerifiedFirst(r, student) ==
    IF ~student.verified THEN Respond(r, 403, "Account not verified")
    ELSE IF r.data.password # DecryptData(student.password)
         THEN Respond(r, 401, "Invalid email or password")
    ELSE [r EXCEPT !.pc = "q2"]

\* The checks of login on the fetched row, in the order the handler makes them.
LoginChecks(r, student) ==
    IF r.data.password # DecryptData(student.password)
    THEN Respond(r, 401, "Invalid email or password")
    ELSE IF ~student.verified THEN Respond(r, 403, "Account not verified")
    ELSE [r EXCEPT !.pc = "q2"]

\* login: SELECT ... FROM students WHERE email = %s; fetchone(); the checks
LoginSelect(t) ==
    LET r == req[t] IN
    /\ r.pc = "q1" /\ r.kind = "login"
    /\ IF ~IsOpen(r.cur)
       THEN req' = [req EXCEPT ![t] = Raised(r)]
       ELSE LET rows == View(r.cur).students
                found == {i \in DOMAIN rows : rows[i].email = r.data.email}
            IN  IF found = {}
                THEN req' = [req EXCEPT ![t] =
                                Respond(r, 401, "Invalid email or password")]
                ELSE \E i \in found :
                        req' = [req EXCEPT ![t] =
                                  LoginChecks([r EXCEPT !.student = rows[i]], rows[i])]
    /\ UNCHANGED <<students, results, conns, connection, served, call>>

\* login: the subjects, COUNT(*), SUM(marks) and recent-results queries
LoginStats(t) ==
    LET r == req[t] IN
    /\ r.pc = "q2" /\ r.kind = "login"
    /\ req' = [req EXCEPT ![t] =
            IF ~IsOpen(r.cur) THEN Raised(r) ELSE Respond(r, 200, "Login successful")]
    /\ UNCHANGED <<students, results, conns, connection, served, call>>

\* submit_test: INSERT INTO results
SubmitInsert(t) ==
    LET r == req[t] IN
    /\ r.pc = "q1" /\ r.kind = "submit_test"
    /\ IF ~IsOpen(r.cur)
       THEN /\ req' = [req EXCEPT ![t] = Raised(r)]
            /\ UNCHANGED conns
       ELSE /\ req' = [req EXCEPT ![t] = ToCommit(r)]
            /\ conns' = Execute(r.cur, [op |-> "insert_result",
                                        row |-> ResultRow(r.data)])
    /\ UNCHANGED <<students, results, connection, served, call>>

\* update_profile: UPDATE students SET ... WHERE id = %s
UpdateProfileExec(t) ==
    LET r == req[t] IN
    /\ r.pc = "q1" /\ r.kind = "update_profile"
    /\ IF ~IsOpen(r.cur)
       THEN /\ req' = [req EXCEPT ![t] = Raised(r)]
            /\ UNCHANGED conns
       ELSE /\ req' = [req EXCEPT ![t] = ToCommit(r)]
            /\ conns' = Execute(r.cur, [op |-> "update_student", data |-> r.data])
    /\ UNCHANGED <<students, results, connection, served, call>>

SuccessStatus(kind) == IF kind \in {"signup", "submit_test"} THEN 201 ELSE 200

SuccessMessage(kind) ==
    CASE kind = "signup" -> "Student account created successfully"
      [] kind = "verify" -> "Account verified successfully"
      [] kind = "submit_test" -> "Test submitted successfully"
      [] kind = "update_profile" -> "Profile updated successfully"

\* self.connection.commit(), then the success response
Commit(t) ==
    LET r == req[t] IN
    /\ r.pc = "commit"
    /\ IF ~IsOpen(connection)
       THEN /\ req' = [req EXCEPT ![t] = Raised(r)]
            /\ UNCHANGED <<students, results, conns>>
       ELSE /\ students' = View(connection).students
            /\ results' = View(connection).results
            /\ conns' = [conns EXCEPT ![connection].pending = <<>>]
            /\ req' = [req EXCEPT ![t] =
                        Respond(r, SuccessStatus(r.kind), SuccessMessage(r.kind))]
    /\ UNCHANGED <<connection, served, call>>

\* except Exception: self.connection.rollback(); return ..., 500. On a closed
\* connection rollback() raises in turn, the exception leaves the handler and
\* the framework answers its own 500.
Except(t) ==
    LET r == req[t] IN
    /\ r.pc = "except"
    /\ IF ~IsOpen(connection)
       THEN /\ req' = [req EXCEPT ![t] =
                        [Respond(r, 500, "Internal Server Error") EXCEPT !.escaped = TRUE]]
            /\ UNCHANGED conns
       ELSE /\ req' = [req EXCEPT ![t] = Respond(r, 500, ErrorMessage(r.kind))]
            /\ conns' = [conns EXCEPT ![connection].pending = <<>>]
    /\ UNCHANGED <<students, results, connection, served, call>>

\* _teardown_request: if self.connection: self.connection.close()
TeardownRequest(t) ==
    /\ req[t].pc = "teardown"
    /\ conns' = IF connection # 0
                THEN [conns EXCEPT ![connection] = [open |-> FALSE, pending |-> <<>>]]
                ELSE conns
    /\ req' = [req EXCEPT ![t] = Idle]
    /\ UNCHANGED <<students, results, connection, served, call>>

Handler(t) ==
    \/ Start(t)
    \/ SignupCheck(t)
    \/ SignupInsert(t)
    \/ VerifySelect(t)
    \/ VerifyUpdate(t)
    \/ LoginSelect(t)
    \/ LoginStats(t)
    \/ SubmitInsert(t)
    \/ UpdateProfileExec(t)
    \/ Commit(t)
    \/ Except(t)

Next == \E t \in Threads : BeforeRequest(t) \/ Handler(t) \/ TeardownRequest(t)

Spec == Init /\ [][Next]_vars

NextSeq == \E t \in Threads : BeforeRequestSeq(t) \/ Handler(t) \/ TeardownRequest(t)

SpecSeq == Init /\ [][NextSeq]_vars

(***************************************************************************)
(* The helpers on their own: every bounded input, then the call.           *)
(***************************************************************************)
FieldNames == {"id", "email", "name"}

JsonValues ==
    {JNull, JStr(<<>>), JStr(<<"x">>), JInt(0), JInt(1), JBool(FALSE), JBool(TRUE),
     JList(<<>>)}

Mappings == UNION {[D -> JsonValues] : D \in SUBSET FieldNames}

RequiredLists == UNION {[1..n -> FieldNames] : n \in 0..MaxRequired}

InitValidate ==
    /\ students = <<>> /\ results = <<>> /\ conns = <<>> /\ connection = 0
    /\ req = [t \in Threads |-> Idle] /\ served = 0
    /\ \E data \in Mappings, required_fields \in RequiredLists :
          call = [op |-> "validate", data |-> data,
                  required_fields |-> required_fields, done |-> FALSE, out |-> None]

Validate ==
    /\ call.op = "validate" /\ ~call.done
    /\ call' = [call EXCEPT !.done = TRUE,
                            !.out = ValidateRequiredFields(call.data, call.required_fields)]
    /\ UNCHANGED <<students, results, conns, connection, req, served>>

SpecValidate == InitValidate /\ [][Validate]_vars

IdChars == {"0", "5", "7", "a", "-"}

TestIdInputs ==
    {JInt(n) : n \in (0..MaxSmallId) \cup {prime - 1, prime, prime + 1, 2 * prime,
                                           0 - 1, 0 - prime}}
    \cup {JStr(str) : str \in UNION {[1..n -> IdChars] : n \in 0..MaxIdLen}}
    \cup {JNull}

InitRid ==
    /\ students = <<>> /\ results = <<>> /\ conns = <<>> /\ connection = 0
    /\ req = [t \in Threads |-> Idle] /\ served = 0
    /\ \E test_id \in TestIdInputs :
          call = [op |-> "response_id", test_id |-> test_id, done |-> FALSE,
                  out |-> None]

ResponseId ==
    /\ call.op = "response_id" /\ ~call.done
    /\ call' = [call EXCEPT !.done = TRUE, !.out = GenerateResponseId(call.test_id)]
    /\ UNCHANGED <<students, results, conns, connection, req, served>>

SpecRid == InitRid /\ [][ResponseId]_vars

(***************************************************************************)
(* The claims.                                                             *)
(***************************************************************************)

\* C1: no two rows of students share an email, and no two share an id.
C1_UniqueEmailAndId ==
    \A i, j \in DOMAIN students :
        i # j => /\ students[i].email # students[j].email
                 /\ students[i].id # students[j].id

\* C2: a request's teardown closes the connection that request opened, a
\* connection no other request in flight is using, and once every request has
\* finished no connection is left open.
C2_ConnectionScope ==
    [][/\ \A t \in Threads :
            (req[t].pc = "teardown" /\ req'[t].pc = "idle") =>
                /\ connection = req[t].own
                /\ \A u \in Threads \ {t} :
                      req[u].pc # "idle" => req[u].own # connection /\ req[u].cur # connection
       /\ (\A t \in Threads : req'[t].pc = "idle") =>
              \A c \in DOMAIN conns' : ~conns'[c].open]_vars

\* A login that fetched a student row and has answered.
LoginAnswered(t) ==
    /\ req[t].kind = "login" /\ req[t].pc = "teardown"
    /\ ~req[t].raised /\ req[t].student # None

\* C3 as stated: a login that fetched a row with verified = false answers 403,
\* whatever the password.
C3_Unverified403 ==
    \A t \in Threads :
        (LoginAnswered(t) /\ ~req[t].student.verified) => req[t].resp = 403

\* C3 as amended: a login that fetched a row with verified = false answers 403
\* when the submitted password is the stored one and 401 when it is not.
C3_UnverifiedLogin ==
    \A t \in Threads :
        (LoginAnswered(t) /\ ~req[t].student.verified) =>
            req[t].resp = IF req[t].data.password = DecryptData(req[t].student.password)
                          THEN 403 ELSE 401

\* An unverified student was refused with the wrong password.
C3_Witness ==
    \E t \in Threads :
        /\ LoginAnswered(t) /\ ~req[t].student.verified
        /\ req[t].data.password # DecryptData(req[t].student.password)
        /\ req[t].resp = 401

\* C4: a login answers 200 only for a student whose stored row has verified =
\* true (stored rows keep their id, and verified is never reset).
C4_LoginOnlyIfVerified ==
    \A t \in Threads :
        (req[t].kind = "login" /\ req[t].pc = "teardown" /\ req[t].resp = 200) =>
            \E i \in DOMAIN students :
                students[i].id = req[t].student.id /\ students[i].verified

\* C5: a signup whose email or id is that of a stored student answers 400 at
\* its duplicate check, writes nothing, and the tables are the same when it
\* started, when it answered and when it has been torn down.
C5_DuplicateSignup ==
    [][\A t \in Threads :
          (req[t].kind = "signup" /\ req'[t] # req[t]
              /\ req[t].pc \in {"handler", "q1", "teardown"}) =>
             /\ students' = students /\ results' = results
             /\ \A c \in DOMAIN conns :
                   Len(conns'[c].pending) <= Len(conns[c].pending)
             /\ (req[t].pc = "q1"
                   /\ \E i \in DOMAIN students :
                         \/ students[i].email = req[t].data.email
                         \/ students[i].id = req[t].data.id)
                => /\ req'[t].pc = "teardown" /\ req'[t].resp = 400
                   /\ req'[t].message = "Email or ID already exists"]_vars

\* A signup was refused as a duplicate.
C5_Witness ==
    \E t \in Threads :
        /\ req[t].kind = "signup" /\ req[t].pc = "teardown" /\ req[t].resp = 400
        /\ req[t].message = "Email or ID already exists"

\* C6: the department of every stored student is a row of department.
C6_DepartmentExists ==
    \A i \in DOMAIN students : students[i].dept_name \in Departments

\* C7: a mutating handler in which a statement raised rolls back the
\* transaction its statements went into and answers 500 from its except block:
\* the exception does not leave the handler, and the tables are untouched.
C7_RollbackThenRespond ==
    [][\A t \in Threads :
          (req[t].kind \in Mutating /\ req[t].pc = "except" /\ req'[t].pc = "teardown") =>
             /\ req'[t].resp = 500 /\ req'[t].message = ErrorMessage(req[t].kind)
             /\ ~req'[t].escaped
             /\ req[t].cur # 0 => conns'[req[t].cur].pending = <<>>
             /\ students' = students /\ results' = results]_vars

\* C8: an integer test id congruent to 0 modulo the prime fails with the
\* computation error, a test id that is no integer fails with "test_id must be
\* an integer", and the integer zero does not fail with the latter.
C8_FailureKinds ==
    (call.op = "response_id" /\ call.done) =>
        LET n == PyInt(call.test_id)
            InvalidInput == Raise("ValueError", "test_id must be an integer")
            ComputationError == Raise("Exception", "Error generating response ID")
        IN  /\ (n.ok /\ n.v % prime = 0) => call.out = ComputationError
            /\ (call.test_id.t = "str" /\ ~n.ok) => call.out = InvalidInput
            /\ (call.test_id = JInt(0)) => call.out # InvalidInput

\* The required positions whose field the predicate Missing reports.
Omitted(required_fields, Missing(_)) ==
    {p \in DOMAIN required_fields : Missing(required_fields[p])}

\* out is the verdict of a validator under which Missing decides an omission:
\* success exactly when nothing is omitted, else one failure that lists every
\* omitted field once per required position, in the order of the required list.
VerdictFor(out, required_fields, Missing(_)) ==
    LET omitted == Omitted(required_fields, Missing)
    IN  /\ (out = None) <=> (omitted = {})
        /\ out # None =>
              /\ out.success = FALSE
              /\ Len(out.missing_fields) = Cardinality(omitted)
              /\ \A p \in omitted :
                    out.missing_fields[Cardinality({q \in omitted : q <= p})]
                        = required_fields[p]

\* C9 as stated: a field is missing when its key is absent or its value is
\* null or empty.
C9_AbsentNullEmpty ==
    (call.op = "validate" /\ call.done) =>
        LET Missing(f) ==
                \/ f \notin DOMAIN call.data
                \/ call.data[f] \in {JNull, JStr(<<>>), JList(<<>>)}
        IN  VerdictFor(call.out, call.required_fields, Missing)

\* C9 as amended: a field is missing when its key is absent or its value is
\* falsy -- null, the empty string, an empty list, and also 0 and false.
C9_AbsentOrFalsy ==
    (call.op = "validate" /\ call.done) =>
        LET Missing(f) ==
                \/ f \notin DOMAIN call.data
                \/ call.data[f] \in {JNull, JStr(<<>>), JList(<<>>), JInt(0), JBool(FALSE)}
        IN  VerdictFor(call.out, call.required_fields, Missing)

\* Two required fields were reported at once, one of them present with value 0.
C9_Witness ==
    /\ call.op = "validate" /\ call.done /\ call.out # None
    /\ Len(call.out.missing_fields) = 2
    /\ call.out.missing_fields[1] # call.out.missing_fields[2]
    /\ \E f \in DOMAIN call.data :
          call.data[f] = JInt(0) /\ call.out.missing_fields[2] = f

\* C10: a stored row of results stays, with the same values, at the same place.
C10_ResultsKept ==
    [][/\ Len(results') >= Len(results)
       /\ \A i \in DOMAIN results : results'[i] = results[i]]_vars

\* Two different rows of results with the same id: a second submission for the
\* same test id was stored beside the first.
C10_Witness ==
    \E i, j \in DOMAIN results :
        i < j /\ results[i].id = results[j].id /\ results[i] # results[j]

\* The statements that commit() makes durable in this step: the transaction of
\* the connection self.connection names.
Committing == IF IsOpen(connection) THEN conns[connection].pending ELSE <<>>

IsVerifyUpdate(op) == op.op = "update_verified"

\* The students table this step would store had verify's UPDATE not been issued.
WithoutVerify ==
    ApplyAll([students |-> students, results |-> results],
             SelectSeq(Committing, LAMBDA op : ~IsVerifyUpdate(op))).students

\* C11: the verified flag of a stored student row never goes back from true to
\* false; a row keeps its place and its id; a row inserted by signup has
\* verified = false and only the UPDATE of verify makes a flag true; name,
\* email, department and password of a stored row change only by an UPDATE of
\* update_profile for that row's id, which leaves id and verified as they were.
C11_VerifiedMonotonic ==
    [][students' # students =>
        /\ Len(students') >= Len(students)
        /\ Len(WithoutVerify) = Len(students')
        /\ \A i \in DOMAIN students :
              /\ students'[i].id = students[i].id
              /\ students[i].verified => students'[i].verified
              /\ WithoutVerify[i].verified = students[i].verified
              /\ [students'[i] EXCEPT !.verified = FALSE]
                    # [students[i] EXCEPT !.verified = FALSE]
                 => \E k \in DOMAIN Committing :
                        /\ Committing[k].op = "update_student"
                        /\ Committing[k].data.id = students[i].id
        /\ \A i \in DOMAIN students' \ DOMAIN students :
              ~WithoutVerify[i].verified]_vars

\* update_profile has just answered 200 for the stored student 1, who had been
\* verified before: the row carries the new name and is still verified.
C11_Witness ==
    /\ Len(students) = 1
    /\ students[1].id = 1 /\ students[1].name = "n" /\ students[1].verified
    /\ \E t \in Threads :
          /\ req[t].kind = "update_profile"
          /\ req[t].pc = "teardown" /\ req[t].resp = 200

====
